---- MODULE Spec2Model ----
(***************************************************************************)
(* Model of the Chatty backend scaffolding: the custom-error hierarchy,    *)
(* the joiValidation method decorator, the middleware chain that           *)
(* ChattyServer.start registers (with the express dispatch it is run by),  *)
(* the start of the HTTP and Socket.IO server, and the database           *)
(* connection set-up.                                                      *)
(***************************************************************************)
EXTENDS Integers, Sequences, FiniteSets, TLC

\* ------------------------------------------------------------------------
\* Bounds and input sets
\* ------------------------------------------------------------------------

\* Number of 'disconnected' events the environment may deliver.
MaxDisconnects == 3

\* Messages of the errors route handlers throw.
Messages == {"user not found", "bad input"}

\* Constructor arguments tried on every error class.
CtorMessages ==
  {"", "user not found", "bad input", "file too large", "\"email\" is required",
   "Token is invalid. Please login again."}

\* Request inputs.
HttpMethods == {"GET", "POST", "OPTIONS"}
Paths == {"/signup", "/nope"}
Queries == {"", "?x=1"}
Fields == {"email", "password"}
Receivers == {"undefined", "controller"}
Results == {"r1", "r2"}

\* process.env.CLIENT_URL, as read by the Config constructor.
ClientUrls == {"", "http://localhost:3000"}

\* ------------------------------------------------------------------------
\* http-status-codes constants used by the error classes and the server
\* ------------------------------------------------------------------------
BAD_REQUEST == 400
NOT_FOUND == 404
UNAUTHORIZED == 401
REQUEST_TOO_LONG == 413
SERVICE_UNAVAILABLE == 503
\* express' defaults: an untouched response has status 200, an unhandled
\* error without a usable status is answered with 500.
DEFAULT_STATUS == 200
INTERNAL_SERVER_ERROR == 500
\* cors option optionsSuccessStatus.
OPTIONS_SUCCESS_STATUS == 200

\* ------------------------------------------------------------------------
\* helpers/error-handler.ts: the error hierarchy
\* ------------------------------------------------------------------------

\* The concrete subclasses of CustomError.
CustomErrorClasses ==
  {"JoinValidationError", "BadRequestError", "NotFoundError",
   "NotAuthorizeError", "FileToLargeError", "ServerError"}

\* The value-level names the module exports (interfaces are erased).
ErrorHandlerExports == CustomErrorClasses \cup {"CustomError"}

\* `extends`: the superclass of every class that can occur.
SuperClass(cls) ==
  IF cls \in CustomErrorClasses THEN "CustomError"
  ELSE IF cls = "Error" THEN "Object"
  ELSE "Error"

\* `e instanceof C`, by walking the prototype chain (depth at most 3).
InstanceOf(e, C) ==
  \/ e.cls = C
  \/ SuperClass(e.cls) = C
  \/ SuperClass(SuperClass(e.cls)) = C

\* The class field initialiser `statusCode = HTTP_STATUS.<...>`.
MutStatusCodeOf(cls) ==
  CASE cls = "JoinValidationError" -> BAD_REQUEST
    [] cls = "BadRequestError" -> BAD_REQUEST
    [] cls = "NotFoundError" -> BAD_REQUEST
    [] cls = "NotAuthorizeError" -> UNAUTHORIZED
    [] cls = "FileToLargeError" -> REQUEST_TOO_LONG
    [] cls = "ServerError" -> SERVICE_UNAVAILABLE

StatusCodeOf(cls) ==
  CASE cls = "JoinValidationError" -> BAD_REQUEST
    [] cls = "BadRequestError" -> BAD_REQUEST
    [] cls = "NotFoundError" -> NOT_FOUND
    [] cls = "NotAuthorizeError" -> UNAUTHORIZED
    [] cls = "FileToLargeError" -> REQUEST_TOO_LONG
    [] cls = "ServerError" -> SERVICE_UNAVAILABLE

\* The class field initialiser `status = 'error'`.
StatusOf(cls) == "error"

\* `new <cls>(message)` for a subclass of CustomError: super(message) sets
\* message, the field initialisers set statusCode and status.
NewCustomError(cls, message) ==
  [cls |-> cls, message |-> message,
   statusCode |-> StatusCodeOf(cls), status |-> StatusOf(cls)]

\* An error object that is no CustomError (TypeError, Error, an http error
\* of a body parser): only some carry a statusCode.
NewPlainError(cls, message, statusCode) ==
  [cls |-> cls, message |-> message, statusCode |-> statusCode, status |-> ""]

\* The methods an object of class cls answers to (own and inherited).
MethodsOf(cls) ==
  IF cls \in CustomErrorClasses THEN {"serializeErrors"} ELSE {}

\* CustomError.serializeErrors().
serializeErrors(e) ==
  [message |-> e.message, status |-> e.status, statusCode |-> e.statusCode]

\* ------------------------------------------------------------------------
\* State
\* ------------------------------------------------------------------------
VARIABLES
  clientUrl,   \* config.CLIENT_URL
  stack,       \* the express application's middleware stack, in order
  req,         \* the request being served, or NoReq
  idx,         \* index of the layer the router hands the request to next
  layerError,  \* the error travelling down the chain, or NoErr
  res,         \* the response object of the request
  reqLog,      \* what log.error received while serving the request
  call,        \* the invocation of the joiValidation-wrapped route handler
  ctorCls,     \* error-class probe: class being constructed
  ctorMsg,     \* error-class probe: constructor argument
  errObj,      \* error-class probe: the constructed object, or NoErr
  serialized,  \* error-class probe: result of serializeErrors(), or NoJson
  dbPending,   \* mongoose.connect() promises not yet settled
  dbRejected,  \* rejected connect promises whose catch callback has not run
  dbFulfilled, \* fulfilled connect promises whose then callback has not run
  dbListener,  \* 'disconnected' listener registered on mongoose.connection
  dbAttempts,  \* number of connect() calls made so far
  disconnects, \* number of 'disconnected' events delivered so far
  failures,    \* number of connect attempts that have failed so far
  exited,      \* process.exit has been called
  exitCode,    \* the code process.exit was called with (0 while running)
  srv          \* startServer: its position, the redis clients, the HTTP server

pipeVars == <<clientUrl, stack, req, idx, layerError, res, reqLog, call>>
probeVars == <<ctorCls, ctorMsg, errObj, serialized>>
dbVars == <<dbPending, dbRejected, dbFulfilled, dbListener, dbAttempts,
            disconnects, failures, exited, exitCode>>
srvVars == <<srv>>
vars == <<pipeVars, probeVars, dbVars, srvVars>>

\* statusCode 0 stands for "the object has no statusCode property".
NoErr == [cls |-> "none", message |-> "", statusCode |-> 0, status |-> ""]
NoJson == [none |-> TRUE]
NoReq == [none |-> TRUE]

\* A response nothing has been written to.
FreshRes == [statusCode |-> DEFAULT_STATUS, sent |-> FALSE, type |-> "none",
             body |-> NoJson, by |-> "nobody"]

\* res.status(code): sets the status code, sends nothing.
ResStatus(r, code) == [r EXCEPT !.statusCode = code]

\* res.json(body): sends the response with the status code set so far.
ResJson(r, body, who) ==
  [r EXCEPT !.sent = TRUE, !.type = "json", !.body = body, !.by = who]

\* A wrapped-handler invocation that has not begun.
IdleCall ==
  [pc |-> "idle", this |-> "undefined", args |-> <<>>, validation |-> <<>>,
   origCalls |-> 0, origThis |-> "undefined", origArgs |-> <<>>,
   origReturned |-> "none", result |-> "none", error |-> NoErr]

\* ------------------------------------------------------------------------
\* decorators/joi-validation.decorators.ts
\* ------------------------------------------------------------------------

\* schema.validate(value) of the joi library, for an object schema given as
\* the ordered list of its required keys: one detail per violated rule, in
\* schema order; no error for a conforming value or for undefined.
SchemaValidate(schema, r) ==
  IF ~r.bodyParsed THEN <<>>
  ELSE LET missing == SelectSeq(schema, LAMBDA f : f \notin r.body)
       IN [i \in 1..Len(missing) |-> "\"" \o missing[i] \o "\" is required"]

\* The name the decorator file imports from '@global/helpers/error-handler'.
ImportedValidationError == "joiRequestValidationError"

\* An import binding: the exported class, or undefined when the module
\* exports no such name.
ImportBinding(name) == IF name \in ErrorHandlerExports THEN name ELSE "undefined"

\* `throw new joiRequestValidationError(message)`: constructing with an
\* undefined binding throws a TypeError instead.
ThrownOnInvalid(message) ==
  LET ctor == ImportBinding(ImportedValidationError)
  IN IF ctor = "undefined"
     THEN NewPlainError("TypeError",
                        ImportedValidationError \o " is not a constructor", 0)
     ELSE NewCustomError(ctor, message)

\* The wrapper up to its await: reads req from args[0] and validates req.body.
WrapperEnter(schema, this, args) ==
  [IdleCall EXCEPT !.pc = "awaiting", !.this = this, !.args = args,
                   !.validation = SchemaValidate(schema, args[1])]

\* Mutants of the delegation `originalMethod.apply(this, args)`.
MutApplyDropsReceiver(c) ==
  [c EXCEPT !.origCalls = @ + 1, !.origThis = "undefined", !.origArgs = c.args]

\* `originalMethod.apply(this, args)`: one call, same receiver, same args.
ApplyOriginal(c) ==
  [c EXCEPT !.origCalls = @ + 1, !.origThis = c.this, !.origArgs = c.args]

\* The ways the original route handler can end: it answers the request and
\* returns a value, or it throws.
HandlerOutcomes ==
  [kind : {"returns"}, value : Results, error : {NoErr}]
  \cup [kind : {"throws"}, value : {"none"},
        error : {NewCustomError(c, m) : c \in CustomErrorClasses, m \in Messages}
                \cup {NewPlainError("Error", m, 0) : m \in Messages}]

\* A mutant of the wrapper: it delegates before looking at the validation
\* result.
MutWrapperResume(c, outcome) ==
  LET d == ApplyOriginal(c)
  IN IF Len(c.validation) > 0
     THEN [d EXCEPT !.pc = "thrown", !.error = ThrownOnInvalid(c.validation[1])]
     ELSE IF outcome.kind = "returns"
          THEN [d EXCEPT !.pc = "returned", !.origReturned = outcome.value,
                         !.result = outcome.value]
          ELSE [d EXCEPT !.pc = "thrown", !.error = outcome.error]

\* The wrapper after its await, given how the original handler ends if it is
\* called: throw on a validation error, else delegate and pass on the
\* original's result or error.
WrapperResume(c, outcome) ==
  IF Len(c.validation) > 0
  THEN [c EXCEPT !.pc = "thrown", !.error = ThrownOnInvalid(c.validation[1])]
  ELSE LET d == ApplyOriginal(c)
       IN IF outcome.kind = "returns"
          THEN [d EXCEPT !.pc = "returned", !.origReturned = outcome.value,
                         !.result = outcome.value]
          ELSE [d EXCEPT !.pc = "thrown", !.error = outcome.error]

\* ------------------------------------------------------------------------
\* setupServer.ts: ChattyServer
\* ------------------------------------------------------------------------

\* The route that applicationRoutes registers: a POST route whose handler
\* is wrapped by joiValidation with a schema requiring email and password.
RoutePath == "/signup"
RouteMethod == "POST"
RouteSchema == <<"email", "password">>

\* The request is for the registered route.
RouteMatches(r) == r.path = RoutePath /\ r.method = RouteMethod

\* What each private method of ChattyServer registers on the application.
securityMiddleware == <<"security">>
standardMiddleware == <<"standard">>
routesMiddleware == <<"routes">>
globalErrorHandler == <<"catchAll", "errorMw">>

\* A mutant of start(): the error handling is registered before the routes.
MutStartRegistrations ==
  securityMiddleware \o standardMiddleware \o globalErrorHandler
    \o routesMiddleware

\* start(): the registrations in call order.
StartRegistrations ==
  securityMiddleware \o standardMiddleware \o routesMiddleware
    \o globalErrorHandler

\* Error-handling middleware is a function of four parameters.
IsErrorLayer(name) == name = "errorMw"

\* The method name the error middleware calls on a recognised error.
CalledSerializer == "seralizeErrors"

\* req.originalUrl: the path with its query string.
OriginalUrl(r) == r.path \o r.query

\* A mutant of the catch-all's body: the path without its query string.
MutNotFoundBody(r) == [message |-> r.path \o " not found"]

\* The body of the catch-all's 404 answer.
NotFoundBody(r) == [message |-> OriginalUrl(r) \o " not found"]

\* express' default handler (finalhandler), reached when the chain is
\* exhausted: without an error 404 "Cannot <METHOD> <url>"; with an error
\* the error's statusCode when it has one, else the response's status code
\* when that is 4xx/5xx, else 500.
FinalStatus(e, r) ==
  IF e = NoErr THEN NOT_FOUND
  ELSE IF e.statusCode >= 400 /\ e.statusCode <= 599 THEN e.statusCode
  ELSE IF r.statusCode >= 400 /\ r.statusCode <= 599 THEN r.statusCode
  ELSE INTERNAL_SERVER_ERROR

FinalBody(e, r) ==
  IF e = NoErr
  THEN [html |-> "Cannot " \o r.method \o " " \o OriginalUrl(r)]
  ELSE [html |-> e.cls \o ": " \o e.message]

Serving == req # NoReq /\ ~res.sent /\ call.pc # "awaiting"
AtLayer(name) == Serving /\ idx \in 1..Len(stack) /\ stack[idx] = name

\* startServer and createSocketIO before they are called.
IdleSrv ==
  [pc |-> "init", pub |-> "idle", sub |-> "idle", pubConnects |-> 0,
   subConnects |-> 0, adapter |-> FALSE, listening |-> FALSE, logged |-> 0]

\* startServer up to the await in createSocketIO: the HTTP server, the
\* Socket.IO server and the two redis clients are created and connect() is
\* called on both clients.
StartServerEnter(s) ==
  [s EXCEPT !.pc = "awaiting", !.pub = "pending", !.sub = "pending",
            !.pubConnects = @ + 1, !.subConnects = @ + 1]

\* A mutant of the combined promise: settled by the first client to settle.
MutPromiseRace(pub, sub) ==
  IF pub = "failed" \/ sub = "failed" THEN "rejected"
  ELSE IF pub = "connected" \/ sub = "connected" THEN "fulfilled"
  ELSE "pending"

\* Promise.all([pubClient.connect(), subClient.connect()]): rejected as soon
\* as one connect is rejected, fulfilled once both are fulfilled.
PromiseAll(pub, sub) ==
  IF pub = "failed" \/ sub = "failed" THEN "rejected"
  ELSE IF pub = "connected" /\ sub = "connected" THEN "fulfilled"
  ELSE "pending"

\* startServer after the await: with both clients connected createSocketIO
\* attaches the adapter and returns, and startHttpServer calls listen; a
\* rejection is caught by startServer's catch, which logs it.
StartServerResume(s) ==
  IF PromiseAll(s.pub, s.sub) = "fulfilled"
  THEN [s EXCEPT !.pc = "listening", !.adapter = TRUE, !.listening = TRUE]
  ELSE [s EXCEPT !.pc = "failed", !.logged = @ + 1]

srvIdle == srv = IdleSrv

pipeInit ==
  /\ clientUrl \in ClientUrls
  /\ stack = <<>>
  /\ req = NoReq
  /\ idx = 0
  /\ layerError = NoErr
  /\ res = FreshRes
  /\ reqLog = <<>>
  /\ call = IdleCall

\* ChattyServer.start(): registers the middleware and calls startServer, which
\* runs up to the await in createSocketIO.
Start ==
  /\ stack = <<>>
  /\ stack' = stack \o StartRegistrations
  /\ srv' = StartServerEnter(srv)
  /\ UNCHANGED <<clientUrl, req, idx, layerError, res, reqLog, call>>
  /\ UNCHANGED <<probeVars, dbVars>>

\* A request arrives and the router hands it to the first layer.
Receive ==
  /\ stack # <<>>
  /\ srv.listening
  /\ req = NoReq
  /\ \E m \in HttpMethods, p \in Paths, q \in Queries,
        b \in SUBSET Fields, bad \in BOOLEAN :
       req' = [method |-> m, path |-> p, query |-> q, payload |-> b,
               malformed |-> bad, bodyParsed |-> FALSE, body |-> {}]
  /\ idx' = 1
  /\ layerError' = NoErr
  /\ res' = FreshRes
  /\ reqLog' = <<>>
  /\ call' = IdleCall
  /\ UNCHANGED <<clientUrl, stack>>
  /\ UNCHANGED <<probeVars, dbVars, srvVars>>

\* The router passes over a layer of the other kind: an error skips plain
\* middleware, a request without error skips error middleware.
SkipLayer ==
  /\ Serving
  /\ idx \in 1..Len(stack)
  /\ IsErrorLayer(stack[idx]) # (layerError # NoErr)
  /\ idx' = idx + 1
  /\ UNCHANGED <<clientUrl, stack, req, layerError, res, reqLog, call>>
  /\ UNCHANGED <<probeVars, dbVars, srvVars>>

\* securityMiddleware's layers: cookie-session, hpp and helmet pass the
\* request on; cors answers an OPTIONS request itself with
\* optionsSuccessStatus when an origin is configured, and passes on otherwise.
SecurityLayer ==
  /\ AtLayer("security")
  /\ layerError = NoErr
  /\ IF clientUrl # "" /\ req.method = "OPTIONS"
     THEN /\ res' = [ResStatus(res, OPTIONS_SUCCESS_STATUS) EXCEPT
                       !.sent = TRUE, !.type = "empty", !.by = "cors"]
          /\ idx' = idx
     ELSE /\ res' = res
          /\ idx' = idx + 1
  /\ UNCHANGED <<clientUrl, stack, req, layerError, reqLog, call>>
  /\ UNCHANGED <<probeVars, dbVars, srvVars>>

\* standardMiddleware's layers: compression passes on; the body parsers set
\* req.body, or pass an http error (statusCode 400) down the chain for a
\* body they cannot parse.
StandardLayer ==
  /\ AtLayer("standard")
  /\ layerError = NoErr
  /\ IF req.malformed
     THEN /\ layerError' = NewPlainError("SyntaxError", "Unexpected token", BAD_REQUEST)
          /\ req' = req
     ELSE /\ layerError' = NoErr
          /\ req' = [req EXCEPT !.bodyParsed = TRUE, !.body = req.payload]
  /\ idx' = idx + 1
  /\ UNCHANGED <<clientUrl, stack, res, reqLog, call>>
  /\ UNCHANGED <<probeVars, dbVars, srvVars>>

\* routesMiddleware's layer: a request for the registered route is handed to
\* its joiValidation-wrapped handler, which validates and suspends at its
\* await; any other request is passed on.
RoutesLayer ==
  /\ AtLayer("routes")
  /\ layerError = NoErr
  /\ IF RouteMatches(req)
     THEN /\ \E t \in Receivers :
               call' = WrapperEnter(RouteSchema, t, <<req, "res", "next">>)
          /\ idx' = idx
     ELSE /\ call' = call
          /\ idx' = idx + 1
  /\ UNCHANGED <<clientUrl, stack, req, layerError, res, reqLog>>
  /\ UNCHANGED <<probeVars, dbVars, srvVars>>

\* The wrapped handler resumes after its await. A returning original handler
\* has answered the request; a thrown error (a rejected promise) is passed to
\* next(err) by express-async-errors.
WrapperContinue ==
  /\ req # NoReq
  /\ call.pc = "awaiting"
  /\ \E o \in HandlerOutcomes :
       /\ call' = WrapperResume(call, o)
       /\ IF call'.pc = "returned"
          THEN /\ res' = ResJson(res, [result |-> o.value], "handler")
               /\ layerError' = layerError
               /\ idx' = idx
          ELSE /\ res' = res
               /\ layerError' = call'.error
               /\ idx' = idx + 1
  /\ UNCHANGED <<clientUrl, stack, req, reqLog>>
  /\ UNCHANGED <<probeVars, dbVars, srvVars>>

\* globalErrorHandler's app.all('*'): answers 404 for whatever reaches it.
CatchAllLayer ==
  /\ AtLayer("catchAll")
  /\ layerError = NoErr
  /\ res' = ResJson(ResStatus(res, NOT_FOUND), NotFoundBody(req), "catchAll")
  /\ UNCHANGED <<clientUrl, stack, req, idx, layerError, reqLog, call>>
  /\ UNCHANGED <<probeVars, dbVars, srvVars>>

\* globalErrorHandler's error middleware: logs the error; for a CustomError
\* sets the status code and calls error.seralizeErrors() for the body - a
\* call of a method the object does not have throws a TypeError, which the
\* router passes on as the new error; for any other error calls next()
\* without argument, which clears the error.
ErrorMiddleware ==
  /\ AtLayer("errorMw")
  /\ layerError # NoErr
  /\ reqLog' = Append(reqLog, layerError)
  /\ IF InstanceOf(layerError, "CustomError")
     THEN LET r1 == ResStatus(res, layerError.statusCode)
          IN IF CalledSerializer \in MethodsOf(layerError.cls)
             THEN /\ res' = ResJson(r1, serializeErrors(layerError), "errorMw")
                  /\ layerError' = layerError
                  /\ idx' = idx
             ELSE /\ res' = r1
                  /\ layerError' =
                       NewPlainError("TypeError",
                                     "error." \o CalledSerializer \o " is not a function", 0)
                  /\ idx' = idx + 1
     ELSE /\ res' = res
          /\ layerError' = NoErr
          /\ idx' = idx + 1
  /\ UNCHANGED <<clientUrl, stack, req, call>>
  /\ UNCHANGED <<probeVars, dbVars, srvVars>>

\* The chain is exhausted: express' default handler answers.
FinalHandler ==
  /\ Serving
  /\ idx = Len(stack) + 1
  /\ res' = [statusCode |-> FinalStatus(layerError, res), sent |-> TRUE,
             type |-> "html", body |-> FinalBody(layerError, req),
             by |-> "finalhandler"]
  /\ UNCHANGED <<clientUrl, stack, req, idx, layerError, reqLog, call>>
  /\ UNCHANGED <<probeVars, dbVars, srvVars>>

\* The answered request leaves; its per-request state is dropped.
Finish ==
  /\ req # NoReq
  /\ res.sent
  /\ req' = NoReq
  /\ idx' = 0
  /\ layerError' = NoErr
  /\ res' = FreshRes
  /\ reqLog' = <<>>
  /\ call' = IdleCall
  /\ UNCHANGED <<clientUrl, stack>>
  /\ UNCHANGED <<probeVars, dbVars, srvVars>>

\* A redis client's connect() promise is fulfilled.
RedisConnects ==
  /\ \E c \in {"pub", "sub"} :
       /\ srv[c] = "pending"
       /\ srv' = [srv EXCEPT ![c] = "connected"]
  /\ UNCHANGED <<pipeVars, probeVars, dbVars>>

\* A redis client's connect() promise is rejected.
RedisFails ==
  /\ \E c \in {"pub", "sub"} :
       /\ srv[c] = "pending"
       /\ srv' = [srv EXCEPT ![c] = "failed"]
  /\ UNCHANGED <<pipeVars, probeVars, dbVars>>

\* startServer resumes once the combined promise has settled.
StartServerContinue ==
  /\ srv.pc = "awaiting"
  /\ PromiseAll(srv.pub, srv.sub) # "pending"
  /\ srv' = StartServerResume(srv)
  /\ UNCHANGED <<pipeVars, probeVars, dbVars>>

probeIdle ==
  /\ ctorCls = "none"
  /\ ctorMsg = ""
  /\ errObj = NoErr
  /\ serialized = NoJson

dbIdle ==
  /\ dbPending = 0
  /\ dbRejected = 0
  /\ dbFulfilled = 0
  /\ dbListener = FALSE
  /\ dbAttempts = 0
  /\ disconnects = 0
  /\ failures = 0
  /\ exited = FALSE
  /\ exitCode = 0

Init == pipeInit /\ probeIdle /\ dbIdle /\ srvIdle

Next ==
  \/ Start
  \/ RedisConnects
  \/ RedisFails
  \/ StartServerContinue
  \/ Receive
  \/ SkipLayer
  \/ SecurityLayer
  \/ StandardLayer
  \/ RoutesLayer
  \/ WrapperContinue
  \/ CatchAllLayer
  \/ ErrorMiddleware
  \/ FinalHandler
  \/ Finish

Spec == Init /\ [][Next]_vars

\* The continuations of the awaits are scheduled: the wrapped handler's await
\* of an already computed validation result resumes in a microtask, and
\* startServer resumes once the combined connect promise has settled.
FairSpec == Spec /\ WF_vars(WrapperContinue) /\ WF_vars(StartServerContinue)

\* ------------------------------------------------------------------------
\* Properties of the request pipeline
\* ------------------------------------------------------------------------
WrapperDone == call.pc \in {"returned", "thrown"}
ValidationFailed == Len(call.validation) > 0

\* C1: for a request whose body violates the schema the wrapped handler
\* throws a ValidationError - a CustomError of class JoinValidationError with
\* statusCode 400 carrying the first violation's message - and the original
\* handler is never invoked.
C1_InvalidBodyRaisesValidationError ==
  (WrapperDone /\ ValidationFailed) =>
    /\ call.pc = "thrown"
    /\ call.origCalls = 0
    /\ InstanceOf(call.error, "CustomError")
    /\ call.error.cls = "JoinValidationError"
    /\ call.error.statusCode = 400
    /\ call.error.message = call.validation[1]

\* The part of C1 the code keeps: the original handler is not invoked.
C1_Reached ==
  WrapperDone /\ ValidationFailed /\ call.origCalls = 0 /\ req.body = {}

\* C2: a CustomError that reaches the global error responder is answered by
\* the responder with the error's statusCode and its serialized form
\* {statusCode, message, status} as JSON body.
C2_RecognisedErrorIsSerialized ==
  (req # NoReq /\ res.sent /\ Len(reqLog) > 0
     /\ InstanceOf(reqLog[1], "CustomError")) =>
    /\ res.by = "errorMw"
    /\ res.type = "json"
    /\ res.statusCode = reqLog[1].statusCode
    /\ res.body = [statusCode |-> reqLog[1].statusCode,
                   message |-> reqLog[1].message,
                   status |-> reqLog[1].status]

\* C3: for a body that satisfies the schema the wrapper invokes the original
\* handler exactly once, with the receiver and the arguments it was called
\* with itself (the router's req, res, next), and returns what it returned.
C3_ValidBodyDelegates ==
  (WrapperDone /\ ~ValidationFailed) =>
    /\ call.origCalls = 1
    /\ call.origThis = call.this
    /\ call.origArgs = call.args
    /\ call.origArgs = <<req, "res", "next">>
    /\ (call.pc = "returned" => call.result = call.origReturned)

C3_Witness ==
  /\ call.pc = "returned"
  /\ ~ValidationFailed
  /\ call.this = "controller"
  /\ call.origThis = "controller"
  /\ call.result = "r2"
  /\ req.body = {"email", "password"}

\* C4: an error that is no CustomError is logged by the responder, which
\* writes nothing itself; the framework's default handler then answers the
\* request with HTTP 500.
C4_UnrecognisedErrorYields500 ==
  (req # NoReq /\ res.sent /\ Len(reqLog) > 0
     /\ ~InstanceOf(reqLog[1], "CustomError")) =>
    /\ res.by = "finalhandler"
    /\ res.statusCode = 500

\* C5: a request to the validated route whose body violates the schema ends
\* with an HTTP 400 response written by the global responder whose message
\* is the first violation's message.
C5_InvalidBodyEndsIn400 ==
  (req # NoReq /\ res.sent /\ call.pc = "thrown" /\ ValidationFailed) =>
    /\ res.by = "errorMw"
    /\ res.statusCode = 400
    /\ res.type = "json"
    /\ res.body.message = call.validation[1]

\* C7 as stated: every request that matches no registered route is answered
\* 404 with the JSON body {message: "<url> not found"}, whatever its method,
\* and a request that matches a route is never answered by the catch-all.
C7_UnmatchedAlways404 ==
  (req # NoReq /\ res.sent) =>
    IF RouteMatches(req)
    THEN res.by # "catchAll"
    ELSE /\ res.statusCode = 404
         /\ res.type = "json"
         /\ res.body = [message |-> req.path \o req.query \o " not found"]

\* The requests that get as far as route matching: not answered by cors as
\* an OPTIONS preflight, not rejected by the body parsers.
ReachesRouting(r) ==
  /\ ~(r.method = "OPTIONS" /\ clientUrl # "")
  /\ ~r.malformed

\* C7 amended: every request that reaches route matching - one that cors did
\* not answer as an OPTIONS request and whose body the parsers accepted - and
\* matches no registered route is answered by the catch-all with 404 and the
\* JSON body {message: "<originalUrl> not found"}; a request that matches a
\* registered route is never answered by the catch-all.
C7_UnmatchedRouted404 ==
  (req # NoReq /\ res.sent) =>
    IF RouteMatches(req)
    THEN res.by # "catchAll"
    ELSE ReachesRouting(req) =>
           /\ res.by = "catchAll"
           /\ res.statusCode = 404
           /\ res.type = "json"
           /\ res.body = [message |-> req.path \o req.query \o " not found"]

C7_Witness ==
  /\ req # NoReq
  /\ res.sent
  /\ res.by = "catchAll"
  /\ req.method = "OPTIONS"
  /\ req.query = "?x=1"
  /\ res.body = [message |-> "/nope?x=1 not found"]

\* C8 as stated: a finished invocation of the wrapper has either invoked the
\* original handler or propagated an error, never both and never neither.
C8_ExactlyOneOutcome ==
  WrapperDone => ((call.origCalls > 0) # (call.error # NoErr))

\* The safety half of C8 amended.
C8_Safety ==
  /\ (call.pc = "awaiting" => call.origCalls = 0)
  /\ (WrapperDone =>
        \/ /\ ~ValidationFailed
           /\ call.origCalls = 1
           /\ (call.pc = "thrown") = (call.error # NoErr)
        \/ /\ ValidationFailed
           /\ call.origCalls = 0
           /\ call.pc = "thrown"
           /\ call.error # NoErr)

\* C8 amended: every invocation of the wrapper that begins validation
\* eventually ends in exactly one of two ways: validation passed and the
\* original handler was invoked exactly once (what it returns or throws is
\* the wrapper's outcome), or validation failed and an error is propagated
\* to the caller without the original handler being invoked; the original
\* handler never starts while validation is pending.
C8_ValidationSettlesOneWay ==
  /\ [] C8_Safety
  /\ (call.pc = "awaiting") ~> WrapperDone

C8_Witness ==
  /\ call.pc = "thrown"
  /\ ~ValidationFailed
  /\ call.origCalls = 1
  /\ call.error = NewCustomError("NotFoundError", "user not found")

\* C9: start registers security, standard, routes, catch-all and error
\* middleware in this order, the error responder being last, and an error
\* raised by a route handler has reached the responder before the request is
\* answered.
C9_ErrorResponderIsLast ==
  /\ stack # <<>> =>
       /\ stack = <<"security", "standard", "routes", "catchAll", "errorMw">>
       /\ IsErrorLayer(stack[Len(stack)])
  /\ (req # NoReq /\ call.pc = "thrown" /\ res.sent) =>
       /\ Len(reqLog) > 0
       /\ reqLog[1] = call.error

C9_Witness ==
  /\ req # NoReq
  /\ call.pc = "thrown"
  /\ res.sent
  /\ Len(reqLog) = 1
  /\ reqLog[1] = NewCustomError("ServerError", "bad input")

\* ------------------------------------------------------------------------
\* The error classes on their own: construct, then serialize
\* ------------------------------------------------------------------------
ProbeInit ==
  /\ pipeInit
  /\ dbIdle
  /\ srvIdle
  /\ ctorCls \in CustomErrorClasses
  /\ ctorMsg \in CtorMessages
  /\ errObj = NoErr
  /\ serialized = NoJson

\* new <ctorCls>(ctorMsg)
Construct ==
  /\ errObj = NoErr
  /\ errObj' = NewCustomError(ctorCls, ctorMsg)
  /\ UNCHANGED <<ctorCls, ctorMsg, serialized>>
  /\ UNCHANGED <<pipeVars, dbVars, srvVars>>

\* errObj.serializeErrors()
Serialize ==
  /\ errObj # NoErr
  /\ serialized = NoJson
  /\ serialized' = serializeErrors(errObj)
  /\ UNCHANGED <<ctorCls, ctorMsg, errObj>>
  /\ UNCHANGED <<pipeVars, dbVars, srvVars>>

ProbeNext == Construct \/ Serialize

ProbeSpec == ProbeInit /\ [][ProbeNext]_vars

\* C6: for each of the six error kinds and every constructor message m,
\* serializeErrors() returns the kind's fixed statusCode (400, 400, 404, 401,
\* 413, 503), the kind's fixed status label and the message m.
C6_SerializeMatchesKind ==
  serialized # NoJson =>
    /\ serialized.statusCode =
         CASE ctorCls = "JoinValidationError" -> 400
           [] ctorCls = "BadRequestError" -> 400
           [] ctorCls = "NotFoundError" -> 404
           [] ctorCls = "NotAuthorizeError" -> 401
           [] ctorCls = "FileToLargeError" -> 413
           [] ctorCls = "ServerError" -> 503
    /\ serialized.status = "error"
    /\ serialized.message = ctorMsg
    /\ DOMAIN serialized = {"statusCode", "status", "message"}

C6_Witness ==
  /\ ctorCls = "NotFoundError"
  /\ serialized = [statusCode |-> 404, message |-> "user not found", status |-> "error"]

\* ------------------------------------------------------------------------
\* setupDatabase.ts
\* ------------------------------------------------------------------------
DbRunning == ~exited

DbInit == pipeInit /\ probeIdle /\ dbIdle /\ srvIdle

\* The default export, called once by Application.initialize: connect() and
\* the registration of connect as the 'disconnected' listener.
DatabaseConnection ==
  /\ DbRunning
  /\ ~dbListener
  /\ dbAttempts' = dbAttempts + 1
  /\ dbPending' = dbPending + 1
  /\ dbListener' = TRUE
  /\ UNCHANGED <<dbRejected, dbFulfilled, disconnects, failures, exited, exitCode>>
  /\ UNCHANGED <<pipeVars, probeVars, srvVars>>

\* mongoose.connection emits 'disconnected': the listener calls connect().
Disconnected ==
  /\ DbRunning
  /\ dbListener
  /\ disconnects < MaxDisconnects
  /\ disconnects' = disconnects + 1
  /\ dbAttempts' = dbAttempts + 1
  /\ dbPending' = dbPending + 1
  /\ UNCHANGED <<dbRejected, dbFulfilled, dbListener, failures, exited, exitCode>>
  /\ UNCHANGED <<pipeVars, probeVars, srvVars>>

\* A connect attempt succeeds: its promise is fulfilled.
ConnectFulfils ==
  /\ DbRunning
  /\ dbPending > 0
  /\ dbPending' = dbPending - 1
  /\ dbFulfilled' = dbFulfilled + 1
  /\ UNCHANGED <<dbRejected, dbListener, dbAttempts, disconnects, failures,
                 exited, exitCode>>
  /\ UNCHANGED <<pipeVars, probeVars, srvVars>>

\* A connect attempt fails: its promise is rejected.
ConnectRejects ==
  /\ DbRunning
  /\ dbPending > 0
  /\ dbPending' = dbPending - 1
  /\ dbRejected' = dbRejected + 1
  /\ failures' = failures + 1
  /\ UNCHANGED <<dbFulfilled, dbListener, dbAttempts, disconnects, exited, exitCode>>
  /\ UNCHANGED <<pipeVars, probeVars, srvVars>>

\* The then callback: logs the success.
ThenCallback ==
  /\ DbRunning
  /\ dbFulfilled > 0
  /\ dbFulfilled' = dbFulfilled - 1
  /\ UNCHANGED <<dbPending, dbRejected, dbListener, dbAttempts, disconnects,
                 failures, exited, exitCode>>
  /\ UNCHANGED <<pipeVars, probeVars, srvVars>>

\* A mutant of the catch callback: it logs the error and returns.
MutCatchCallback ==
  /\ DbRunning
  /\ dbRejected > 0
  /\ dbRejected' = dbRejected - 1
  /\ UNCHANGED <<dbPending, dbFulfilled, dbListener, dbAttempts, disconnects,
                 failures, exited, exitCode>>
  /\ UNCHANGED <<pipeVars, probeVars, srvVars>>

\* The catch callback: logs the error and calls process.exit(1).
CatchCallback ==
  /\ DbRunning
  /\ dbRejected > 0
  /\ dbRejected' = dbRejected - 1
  /\ exited' = TRUE
  /\ exitCode' = 1
  /\ UNCHANGED <<dbPending, dbFulfilled, dbListener, dbAttempts, disconnects,
                 failures>>
  /\ UNCHANGED <<pipeVars, probeVars, srvVars>>

DbNext ==
  \/ DatabaseConnection
  \/ Disconnected
  \/ ConnectFulfils
  \/ ConnectRejects
  \/ ThenCallback
  \/ CatchCallback

\* Promise callbacks are run by the microtask queue once their promise has
\* settled.
DbSpec == DbInit /\ [][DbNext]_vars /\ WF_vars(CatchCallback) /\ WF_vars(ThenCallback)

\* C10: every 'disconnected' event starts a new connect attempt, and once a
\* connect attempt (the first or a later one) has failed the process exits
\* with code 1: it does not keep running, and nothing runs after the exit.
C10_FailedConnectExits ==
  /\ [][disconnects' # disconnects =>
          (dbAttempts' = dbAttempts + 1 /\ dbPending' = dbPending + 1)]_vars
  /\ [](failures > 0 => (dbRejected > 0 \/ (exited /\ exitCode = 1)))
  /\ (failures > 0) ~> (exited /\ exitCode = 1)
  /\ [][exited => exited']_vars
  /\ [](exited => ~ENABLED DbNext)

C10_Witness ==
  /\ exited
  /\ exitCode = 1
  /\ disconnects = 2
  /\ dbAttempts = 3
  /\ failures = 1

\* ------------------------------------------------------------------------
\* Properties of the server start
\* ------------------------------------------------------------------------
RedisFailed == srv.pub = "failed" \/ srv.sub = "failed"

\* C11: the HTTP server starts listening (and so serves requests) only once
\* both redis clients have connected and the adapter has been attached; when
\* a redis connect fails the error is logged once, connect is not called
\* again on either client, and the HTTP server never starts listening.
C11_ListenOnlyAfterRedis ==
  /\ [](srv.listening =>
          (srv.pub = "connected" /\ srv.sub = "connected" /\ srv.adapter))
  /\ [](req # NoReq => srv.listening)
  /\ [](RedisFailed => ~srv.listening)
  /\ [][RedisFailed => (~srv'.listening
                         /\ srv'.pubConnects = srv.pubConnects
                         /\ srv'.subConnects = srv.subConnects)]_vars
  /\ [](srv.pubConnects <= 1 /\ srv.subConnects <= 1)
  /\ [](srv.pc = "failed" => (RedisFailed /\ srv.logged = 1))
  /\ RedisFailed ~> (srv.pc = "failed" /\ srv.logged = 1 /\ ~srv.listening)

C11_Witness ==
  /\ srv.pc = "failed"
  /\ srv.pub = "connected"
  /\ srv.sub = "failed"
  /\ srv.logged = 1
  /\ ~srv.listening
  /\ ~srv.adapter

====
